---- MODULE Spec2Model ----
(***************************************************************************)
(* AdaptiQuiz (src/AdaptiQuiz/app.py): the Streamlit session state, the    *)
(* adaptive difficulty controller, the retrying question generator and the *)
(* question turn (answer form and countdown).                              *)
(*                                                                         *)
(* One action is one script run (or, inside get_question, one pass of the  *)
(* retry loop, whose outcome the external generation service decides).     *)
(* Times are in tenths of a second.  time_per_question only sets the       *)
(* length of the countdown and is not modelled; the countdown expiring is  *)
(* the action Timeout.                                                     *)
(***************************************************************************)
EXTENDS Integers, Sequences, FiniteSets, TLC

\* ---------------------------------------------------------------- bounds
\* The largest question count of the short sessions of FairCallSpec.
CallQuestionCount == 2
\* The question count of the long sessions of LongSpec.
LongQuestionCount == 7
\* The slider offers 1..50 questions; the model explores 1..MaxQuestionCount.
MaxQuestionCount == 3
\* The user picks among the first MaxPick radio entries of a question.
MaxPick == 2

\* ------------------------------------------------------------- constants
max_retries == 3
\* base_delay = 1.5 s, in tenths of a second
base_delay == 15

\* Python's None, which no choice text equals
None == "<None>"
\* st.session_state.current_question / user_inputs before they are set
NoQuestion == [none |-> TRUE]
NoInputs == [none |-> TRUE]

difficulty_levels == <<"Beginner", "Intermediate", "Senior Level", "Hiring Challenge">>

\* list.index(x) for a list that holds x, 1-based
IndexOf(list, x) == CHOOSE i \in 1..Len(list) : list[i] = x

\* the options of the "Style" and "Role" multiselects that the model explores
StyleOptions == {"Scenario based"}
RoleLists == {<<>>, <<"SDE II">>}

\* a fallback record whose correct_answer is not one of its choices
FallbackQuestion_BadAnswer ==
    [question |-> "We are experiencing high API traffic. Please identify the concept of 'Rate Limiting'.",
     choices |-> <<"Controlling traffic flow", "Deleting database", "Increasing speed", "None">>,
     correct_answer |-> "Controlling traffic",
     explanation |-> "This is a fallback question generated due to API congestion.",
     concept |-> "API Reliability"]

\* the fixed record returned after the retry loop
FallbackQuestion ==
    [question |-> "We are experiencing high API traffic. Please identify the concept of 'Rate Limiting'.",
     choices |-> <<"Controlling traffic flow", "Deleting database", "Increasing speed", "None">>,
     correct_answer |-> "Controlling traffic flow",
     explanation |-> "This is a fallback question generated due to API congestion.",
     concept |-> "API Reliability"]

\* parsed JSON objects the chain can hand back: one that follows the
\* QuizQuestion schema, one whose correct_answer is not among its choices
ServiceQuestions ==
    { [question |-> "Q1", choices |-> <<"A1", "B1", "C1", "D1">>,
       correct_answer |-> "A1", explanation |-> "E1", concept |-> "Caching"],
      [question |-> "Q2", choices |-> <<"A2", "B2", "C2", "D2">>,
       correct_answer |-> "Z2", explanation |-> "E2", concept |-> "Indexing"] }

\* str(e) of the exceptions chain.invoke can raise, as a list of fragments
ErrorMessages ==
    { <<"Error code: ", "429", " - too many requests">>,
      <<"Rate limit", " reached for model">>,
      <<"Invalid json output">> }

\* "429" in error_msg or "Rate limit" in error_msg
IsRateLimit(error_msg) ==
    \E i \in 1..Len(error_msg) : error_msg[i] = "429" \/ error_msg[i] = "Rate limit"

\* a response the JSON parser lets through although it lacks the
\* correct_answer key: the parser decodes the reply, it does not validate it
\* against QuizQuestion
KeylessQuestion ==
    [question |-> "Q3", choices |-> <<"A3", "B3", "C3", "D3">>,
     explanation |-> "E3", concept |-> "Sharding"]

\* what one chain.invoke call can do: return a response or raise
ServiceOutcomes ==
    { [raised |-> FALSE, response |-> q] : q \in ServiceQuestions } \cup
    { [raised |-> TRUE, error_msg |-> m] : m \in ErrorMessages }

\* ------------------------------------------------------------------ state
VARIABLES
    quiz_started, user_inputs, current_question, question_count, score,
    answers, show_answer, asked_concepts, current_difficulty,
    current_question_style, timer_expired, answer_submitted, force_rerun,
    consecutive_correct,
    gq_pc,        \* "idle" | "loop": whether get_question is in its retry loop
    attempt,      \* loop variable of get_question
    gq_calls,     \* chain.invoke calls made by the current / last call
    gq_trace,     \* what each of those calls did: kind "ok" (with the response) | "rate_limit" | "invalid"
    gq_delay,     \* total time.sleep of the current / last call
    gq_prompt,    \* the asked_concepts value handed to the chain
    raised,       \* "none", or where an uncaught exception ended the script run
    timer_loop,   \* the script run is inside the countdown loop
    restart_clicked \* "Start New Assessment" has been pressed

session == <<quiz_started, user_inputs, current_question, question_count, score,
             answers, show_answer, asked_concepts, current_difficulty,
             current_question_style, timer_expired, answer_submitted, force_rerun,
             consecutive_correct>>
control == <<gq_pc, attempt, gq_calls, gq_trace, gq_delay, gq_prompt, raised, timer_loop,
             restart_clicked>>
vars == <<session, control>>

\* initialize_session_state on a fresh session
Init ==
    /\ quiz_started = FALSE
    /\ user_inputs = NoInputs
    /\ current_question = NoQuestion
    /\ question_count = 0
    /\ score = 0
    /\ answers = <<>>
    /\ show_answer = FALSE
    /\ asked_concepts = <<>>
    /\ current_difficulty = None
    /\ current_question_style = None
    /\ timer_expired = FALSE
    /\ answer_submitted = FALSE
    /\ force_rerun = FALSE
    /\ consecutive_correct = 0
    /\ gq_pc = "idle"
    /\ attempt = 0
    /\ gq_calls = 0
    /\ gq_trace = <<>>
    /\ gq_delay = 0
    /\ gq_prompt = <<>>
    /\ raised = "none"
    /\ timer_loop = FALSE
    /\ restart_clicked = FALSE

\* ------------------------------------------------- configuration form
MakeUserInputs(question_count_, difficulty, adaptive_progression, question_style, target_role) ==
    [QuestionCount |-> question_count_,
     InitialDifficulty |-> difficulty,
     AdaptiveProgression |-> adaptive_progression,
     QuestionStyles |-> question_style,
     TargetRole |-> target_role,
     TechStack |-> <<"Python", "SQL">>]

ConfigInputs ==
    { MakeUserInputs(n, d, a, s, r) :
        n \in 1..MaxQuestionCount,
        d \in {difficulty_levels[i] : i \in 1..Len(difficulty_levels)},
        a \in BOOLEAN, s \in SUBSET StyleOptions, r \in RoleLists }

\* display_configuration_form, "Start Assessment" pressed with one of the
\* given form contents
SubmitConfigFrom(inputs) ==
    /\ ~quiz_started
    /\ \E ui \in inputs :
        /\ user_inputs' = ui
        /\ current_difficulty' = ui.InitialDifficulty
    /\ quiz_started' = TRUE
    /\ UNCHANGED <<current_question, question_count, score, answers, show_answer,
                   asked_concepts, current_question_style, timer_expired,
                   answer_submitted, force_rerun, consecutive_correct>>
    /\ UNCHANGED control

SubmitConfig == SubmitConfigFrom(ConfigInputs)

\* ------------------------------------------------ difficulty controller
\* update_difficulty that levels up on every correct answer
update_difficulty_EveryCorrect(is_correct, inputs, difficulty, streak) ==
    IF ~inputs.AdaptiveProgression THEN <<difficulty, streak>>
    ELSE LET current_idx == IndexOf(difficulty_levels, difficulty) IN
         IF is_correct
         THEN IF streak + 1 >= 1 /\ current_idx < Len(difficulty_levels)
              THEN <<difficulty_levels[current_idx + 1], 0>>
              ELSE <<difficulty, streak + 1>>
         ELSE IF current_idx > 1
              THEN <<difficulty_levels[current_idx - 1], 0>>
              ELSE <<difficulty, 0>>

\* update_difficulty that never levels down
update_difficulty_NoDrop(is_correct, inputs, difficulty, streak) ==
    IF ~inputs.AdaptiveProgression THEN <<difficulty, streak>>
    ELSE LET current_idx == IndexOf(difficulty_levels, difficulty) IN
         IF is_correct
         THEN IF streak + 1 >= 2 /\ current_idx < Len(difficulty_levels)
              THEN <<difficulty_levels[current_idx + 1], 0>>
              ELSE <<difficulty, streak + 1>>
         ELSE <<difficulty, 0>>

\* update_difficulty that takes one off the streak instead of clearing it
update_difficulty_Decrement(is_correct, inputs, difficulty, streak) ==
    IF ~inputs.AdaptiveProgression THEN <<difficulty, streak>>
    ELSE LET current_idx == IndexOf(difficulty_levels, difficulty) IN
         IF is_correct
         THEN IF streak + 1 >= 2 /\ current_idx < Len(difficulty_levels)
              THEN <<difficulty_levels[current_idx + 1], 0>>
              ELSE <<difficulty, streak + 1>>
         ELSE IF current_idx > 1
              THEN <<difficulty_levels[current_idx - 1], streak - 1>>
              ELSE <<difficulty, streak - 1>>

\* update_difficulty that adapts whatever the "Adaptive Difficulty" toggle says
update_difficulty_IgnoresToggle(is_correct, inputs, difficulty, streak) ==
    LET current_idx == IndexOf(difficulty_levels, difficulty) IN
    IF is_correct
    THEN IF streak + 1 >= 2 /\ current_idx < Len(difficulty_levels)
         THEN <<difficulty_levels[current_idx + 1], 0>>
         ELSE <<difficulty, streak + 1>>
    ELSE IF current_idx > 1
         THEN <<difficulty_levels[current_idx - 1], 0>>
         ELSE <<difficulty, 0>>

\* update_difficulty(is_correct): the new <<current_difficulty, consecutive_correct>>
update_difficulty(is_correct, inputs, difficulty, streak) ==
    IF ~inputs.AdaptiveProgression THEN <<difficulty, streak>>
    ELSE LET current_idx == IndexOf(difficulty_levels, difficulty) IN
         IF is_correct
         THEN IF streak + 1 >= 2 /\ current_idx < Len(difficulty_levels)
              THEN <<difficulty_levels[current_idx + 1], 0>>
              ELSE <<difficulty, streak + 1>>
         ELSE IF current_idx > 1
              THEN <<difficulty_levels[current_idx - 1], 0>>
              ELSE <<difficulty, 0>>

\* ------------------------------------------------------ get_question
\* a prompt that is handed the whole history
LastConcepts_All(concepts) == concepts

\* asked_concepts[-5:]
LastConcepts(concepts) ==
    IF Len(concepts) <= 5 THEN concepts
    ELSE SubSeq(concepts, Len(concepts) - 4, Len(concepts))

\* a backoff that grows by base_delay per attempt
wait_time_Linear(attempt_) == base_delay * (attempt_ + 1)

\* a backoff that counts attempts from 1
wait_time_FromOne(attempt_) == base_delay * (2 ^ (attempt_ + 1))

\* wait_time = base_delay * (2 ** attempt)
wait_time(attempt_) == base_delay * (2 ^ attempt_)

\* an except clause that backs off whatever the error is
slept_AnyError(error_msg, attempt_) == wait_time(attempt_)

\* the time the except clause sleeps: wait_time on a rate-limit error, none
\* on any other error ("Immediate Retry")
slept(error_msg, attempt_) ==
    IF IsRateLimit(error_msg) THEN wait_time(attempt_) ELSE 0

\* a loop that runs one pass too many
LoopExhausted_OffByOne(attempt_) == attempt_ + 1 > max_retries

\* for attempt in range(max_retries): whether the pass just made was the last
LoopExhausted(attempt_) == attempt_ + 1 >= max_retries

\* profile.get("Target Role", ["Developer"])[0] raises IndexError on an empty list
RoleLookupRaises(inputs) == Len(inputs.TargetRole) = 0

\* get_question hands its result to display_quiz, which stores it and reruns:
\* the next script run shows the question and enters the countdown loop
ReturnQuestion(q) ==
    /\ current_question' = q
    /\ answer_submitted' = FALSE
    /\ timer_expired' = FALSE
    /\ gq_pc' = "idle"
    /\ timer_loop' = TRUE

\* a display_quiz that generates on every script run
NeedsQuestion_Always == TRUE

\* if st.session_state.current_question is None
NeedsQuestion == current_question = NoQuestion

\* display_quiz finds no current question: picks a style and calls
\* get_question, which runs up to its retry loop
BeginGetQuestion ==
    /\ quiz_started
    /\ NeedsQuestion
    /\ gq_pc = "idle"
    /\ raised = "none"
    /\ IF user_inputs.QuestionStyles = {}
       THEN \* random.choice([]) raises IndexError
            /\ raised' = "random.choice"
            /\ UNCHANGED <<current_question_style, gq_pc, attempt, gq_calls,
                           gq_trace, gq_delay, gq_prompt>>
       ELSE /\ \E style \in user_inputs.QuestionStyles :
                  current_question_style' = style
            /\ IF RoleLookupRaises(user_inputs)
               THEN /\ raised' = "get_question"
                    /\ UNCHANGED <<gq_pc, attempt, gq_calls, gq_trace, gq_delay, gq_prompt>>
               ELSE /\ gq_pc' = "loop"
                    /\ attempt' = 0
                    /\ gq_calls' = 0
                    /\ gq_trace' = <<>>
                    /\ gq_delay' = 0
                    /\ gq_prompt' = <<>>
                    /\ UNCHANGED raised
    /\ UNCHANGED <<quiz_started, user_inputs, current_question, question_count, score,
                   answers, show_answer, asked_concepts, current_difficulty,
                   timer_expired, answer_submitted, force_rerun, consecutive_correct,
                   timer_loop, restart_clicked>>

\* a get_question that files the fallback's concept itself
SessionAcrossCall_FilesFallback ==
    /\ asked_concepts' = IF current_question' = FallbackQuestion
                         THEN Append(asked_concepts, FallbackQuestion.concept)
                         ELSE asked_concepts
    /\ UNCHANGED <<question_count, score, answers, current_difficulty, consecutive_correct>>

\* what a pass of get_question does to the session's score, log, history and
\* difficulty state: the function assigns to none of them
SessionAcrossCall ==
    UNCHANGED <<question_count, score, answers, asked_concepts, current_difficulty,
                consecutive_correct>>

\* one pass of the retry loop: chain.invoke returns or raises; after the
\* last failing pass the loop ends and the fallback record is returned
AttemptOn(outcomes) ==
    /\ gq_pc = "loop"
    /\ \E o \in outcomes :
        /\ gq_calls' = gq_calls + 1
        /\ gq_prompt' = LastConcepts(asked_concepts)
        /\ IF ~o.raised
           THEN /\ gq_trace' = Append(gq_trace, [kind |-> "ok", response |-> o.response])
                /\ ReturnQuestion(o.response)
                /\ UNCHANGED <<attempt, gq_delay>>
           ELSE /\ IF IsRateLimit(o.error_msg)
                   THEN gq_trace' = Append(gq_trace, [kind |-> "rate_limit"])
                   ELSE gq_trace' = Append(gq_trace, [kind |-> "invalid"])
                /\ gq_delay' = gq_delay + slept(o.error_msg, attempt)
                /\ IF LoopExhausted(attempt)
                   THEN /\ ReturnQuestion(FallbackQuestion)
                        /\ UNCHANGED attempt
                   ELSE /\ attempt' = attempt + 1
                        /\ UNCHANGED <<current_question, answer_submitted,
                                       timer_expired, gq_pc, timer_loop>>
    /\ SessionAcrossCall
    /\ UNCHANGED <<quiz_started, user_inputs, show_answer, current_question_style,
                   force_rerun, raised, restart_clicked>>

Attempt == AttemptOn(ServiceOutcomes)

\* ------------------------------------------------------ question turn
\* a question is on screen and no answer is recorded for it yet
AwaitingAnswer ==
    /\ quiz_started
    /\ current_question # NoQuestion
    /\ ~show_answer
    /\ gq_pc = "idle"

\* the radio entries the user can select
Selectable(q) == { q.choices[i] : i \in 1..(IF Len(q.choices) < MaxPick THEN Len(q.choices) ELSE MaxPick) }

\* the locals of the finished get_question call are gone once the turn ends
DropCallLocals ==
    /\ gq_calls' = 0
    /\ gq_trace' = <<>>
    /\ gq_delay' = 0
    /\ gq_prompt' = <<>>
    /\ UNCHANGED <<gq_pc, attempt, raised, restart_clicked>>

\* a verdict that marks the user correct when the question has no usable
\* correct_answer
IsCorrect_AutoMark(user_choice, q) ==
    \/ "correct_answer" \notin DOMAIN q
    \/ user_choice = q.correct_answer
    \/ \A i \in 1..Len(q.choices) : q.choices[i] # q.correct_answer

\* a verdict that takes the answer key from the turn number
IsCorrect_ByTurn(user_choice, q) ==
    user_choice = q.choices[(question_count % Len(q.choices)) + 1]

\* a lookup that falls back on the first choice
get_correct_answer_FirstChoice(q) ==
    IF "correct_answer" \in DOMAIN q THEN q.correct_answer ELSE q.choices[1]

\* question_data.get('correct_answer'): the value, or None without the key
get_correct_answer(q) ==
    IF "correct_answer" \in DOMAIN q THEN q.correct_answer ELSE None

\* is_correct = (user_choice == correct_answer)
IsCorrect(user_choice, q) == (user_choice = get_correct_answer(q))

\* a score that counts every submission
UpdateScore_EverySubmission(score_, is_correct) == score_ + 1

\* if is_correct: st.session_state.score += 1
UpdateScore(score_, is_correct) == IF is_correct THEN score_ + 1 ELSE score_

\* display_question_with_timer, "Submit Answer" pressed with a choice selected
SubmitAnswer ==
    /\ AwaitingAnswer
    /\ \E user_choice \in Selectable(current_question) :
        LET is_correct == IsCorrect(user_choice, current_question)
            upd == update_difficulty(is_correct, user_inputs, current_difficulty,
                                     consecutive_correct)
        IN  /\ answer_submitted' = TRUE
            /\ score' = UpdateScore(score, is_correct)
            /\ current_difficulty' = upd[1]
            /\ consecutive_correct' = upd[2]
            /\ answers' = Append(answers,
                              [question |-> current_question.question,
                               user_answer |-> user_choice,
                               correct |-> is_correct,
                               concept |-> current_question.concept,
                               difficulty |-> upd[1]])
            /\ asked_concepts' = Append(asked_concepts, current_question.concept)
    /\ show_answer' = TRUE
    /\ force_rerun' = FALSE
    /\ timer_loop' = FALSE
    /\ DropCallLocals
    /\ UNCHANGED <<quiz_started, user_inputs, current_question, question_count,
                   current_question_style, timer_expired>>

\* a timeout record that keeps the empty selection of the form
TimeoutRecord_EmptyChoice(q) ==
    [question |-> q.question,
     user_answer |-> "",
     correct |-> FALSE,
     concept |-> q.concept]

\* the record the countdown loop appends
TimeoutRecord(q) ==
    [question |-> q.question,
     user_answer |-> None,
     correct |-> FALSE,
     concept |-> q.concept]

\* "Submit Answer" pressed with nothing selected: the script run skips both
\* the countdown loop and the submission branch
SubmitEmpty ==
    /\ AwaitingAnswer
    /\ timer_loop
    /\ timer_loop' = FALSE
    /\ UNCHANGED session
    /\ UNCHANGED <<gq_pc, attempt, gq_calls, gq_trace, gq_delay, gq_prompt, raised,
                   restart_clicked>>

\* the countdown loop sees remaining <= 0
Timeout ==
    /\ AwaitingAnswer
    /\ timer_loop
    /\ timer_expired' = TRUE
    /\ show_answer' = TRUE
    /\ answers' = Append(answers, TimeoutRecord(current_question))
    /\ force_rerun' = FALSE
    /\ timer_loop' = FALSE
    /\ DropCallLocals
    /\ UNCHANGED <<quiz_started, user_inputs, current_question, question_count, score,
                   asked_concepts, current_difficulty, current_question_style,
                   answer_submitted, consecutive_correct>>

\* the result view reads q_data['correct_answer'] and q_data['explanation']
\* before it draws a button: without either key the run ends in a KeyError
ResultViewRenders(q) == {"correct_answer", "explanation"} \subseteq DOMAIN q

\* a result view that offers "Next Question" once too often
NextOffered_OffByOne ==
    /\ quiz_started
    /\ current_question # NoQuestion
    /\ show_answer
    /\ ResultViewRenders(current_question)
    /\ question_count < user_inputs.QuestionCount

\* the result view is shown and offers the "Next Question" button
NextOffered ==
    /\ quiz_started
    /\ current_question # NoQuestion
    /\ show_answer
    /\ ResultViewRenders(current_question)
    /\ question_count < user_inputs.QuestionCount - 1

\* the result view is shown with the final summary
SummaryShown ==
    /\ quiz_started
    /\ current_question # NoQuestion
    /\ show_answer
    /\ ResultViewRenders(current_question)
    /\ ~(question_count < user_inputs.QuestionCount - 1)

\* "Next Question" that forgets to count the turn
AdvanceCount_Forgotten(count) == count

\* st.session_state.question_count += 1
AdvanceCount(count) == count + 1

\* display_quiz result view, "Next Question" pressed
NextQuestion ==
    /\ NextOffered
    /\ current_question' = NoQuestion
    /\ show_answer' = FALSE
    /\ question_count' = AdvanceCount(question_count)
    /\ UNCHANGED <<quiz_started, user_inputs, score, answers, asked_concepts,
                   current_difficulty, current_question_style, timer_expired,
                   answer_submitted, force_rerun, consecutive_correct>>
    /\ UNCHANGED control

\* main calls initialize_session_state at the top of every script run, so
\* from the first run on every key is in st.session_state
InSessionState == TRUE

\* initialize_session_state, for one key: the default is assigned only
\* "if key not in st.session_state"
initialize_session_state(present, value, default) ==
    IF present THEN value ELSE default

\* display_quiz final summary, "Start New Assessment" pressed
StartNewAssessment ==
    /\ SummaryShown
    /\ restart_clicked' = TRUE
    /\ quiz_started' = initialize_session_state(InSessionState, quiz_started, FALSE)
    /\ user_inputs' = initialize_session_state(InSessionState, user_inputs, NoInputs)
    /\ current_question' = initialize_session_state(InSessionState, current_question, NoQuestion)
    /\ question_count' = initialize_session_state(InSessionState, question_count, 0)
    /\ score' = initialize_session_state(InSessionState, score, 0)
    /\ answers' = initialize_session_state(InSessionState, answers, <<>>)
    /\ show_answer' = initialize_session_state(InSessionState, show_answer, FALSE)
    /\ asked_concepts' = initialize_session_state(InSessionState, asked_concepts, <<>>)
    /\ current_difficulty' = initialize_session_state(InSessionState, current_difficulty, None)
    /\ current_question_style' = initialize_session_state(InSessionState, current_question_style, None)
    /\ timer_expired' = initialize_session_state(InSessionState, timer_expired, FALSE)
    /\ answer_submitted' = initialize_session_state(InSessionState, answer_submitted, FALSE)
    /\ force_rerun' = initialize_session_state(InSessionState, force_rerun, FALSE)
    /\ consecutive_correct' = initialize_session_state(InSessionState, consecutive_correct, 0)
    /\ UNCHANGED <<gq_pc, attempt, gq_calls, gq_trace, gq_delay, gq_prompt, raised,
                   timer_loop>>

Next ==
    \/ SubmitConfig
    \/ BeginGetQuestion
    \/ Attempt
    \/ SubmitAnswer
    \/ SubmitEmpty
    \/ Timeout
    \/ NextQuestion
    \/ StartNewAssessment

Spec == Init /\ [][Next]_vars

\* the retry loop of get_question runs by itself once entered
FairSpec == Spec /\ WF_vars(Attempt)

\* --------------------------------------------------------- short sessions
\* Sessions of at most CallQuestionCount questions, with every handler and
\* every input of Spec, and the retry loop of get_question running by itself.
CallConfigInputs == { ui \in ConfigInputs : ui.QuestionCount <= CallQuestionCount }

CallSubmitConfig == SubmitConfigFrom(CallConfigInputs)

NextCall ==
    \/ CallSubmitConfig
    \/ BeginGetQuestion
    \/ Attempt
    \/ SubmitAnswer
    \/ SubmitEmpty
    \/ Timeout
    \/ NextQuestion
    \/ StartNewAssessment

FairCallSpec == Init /\ [][NextCall]_vars /\ WF_vars(Attempt)

\* ------------------------------------------------------ defective content
\* Sessions of up to CallQuestionCount questions in which the service may
\* also return KeylessQuestion: the same handlers, one more response.
DefectOutcomes ==
    ServiceOutcomes \cup { [raised |-> FALSE, response |-> KeylessQuestion] }

DefectAttempt == AttemptOn(DefectOutcomes)

NextDefect ==
    \/ CallSubmitConfig
    \/ BeginGetQuestion
    \/ DefectAttempt
    \/ SubmitAnswer
    \/ SubmitEmpty
    \/ Timeout
    \/ NextQuestion
    \/ StartNewAssessment

DefectSpec == Init /\ [][NextDefect]_vars

\* ---------------------------------------------------------- long sessions
\* Sessions of LongQuestionCount questions in which the service answers the
\* first attempt and the user either selects the first choice or lets the
\* countdown expire: the same handlers, on fewer inputs, so that the concept
\* history outgrows the 5 entries the prompt is given.
LongConfigInputs ==
    { MakeUserInputs(LongQuestionCount, "Beginner", a, StyleOptions, <<"SDE II">>) :
        a \in BOOLEAN }

LongSubmitConfig == SubmitConfigFrom(LongConfigInputs)

LongAttempt ==
    /\ Attempt
    /\ gq_trace'[Len(gq_trace')].kind = "ok"

LongSubmitAnswer ==
    /\ SubmitAnswer
    /\ answers'[Len(answers')].user_answer = current_question.choices[1]

NextLong ==
    \/ LongSubmitConfig
    \/ BeginGetQuestion
    \/ LongAttempt
    \/ LongSubmitAnswer
    \/ Timeout
    \/ NextQuestion

LongSpec == Init /\ [][NextLong]_vars

\* ------------------------------------------------------------ properties
Adaptive == quiz_started /\ user_inputs.AdaptiveProgression
LevelIdx == IndexOf(difficulty_levels, current_difficulty)
LastOf(log) == log[Len(log)]
\* this step appended an answer record
Recorded == Len(answers') = Len(answers) + 1
\* this step ran update_difficulty(True) / update_difficulty(False)
CorrectStep == Recorded /\ LastOf(answers').correct
IncorrectStep == Recorded /\ ~LastOf(answers').correct /\ LastOf(answers').user_answer # None
\* this step recorded the expiry of the countdown
TimeoutStep == ~timer_expired /\ timer_expired'
Distinct(seq) == \A i, j \in 1..Len(seq) : i # j => seq[i] # seq[j]
InSeq(x, seq) == \E i \in 1..Len(seq) : seq[i] = x
TraceKinds == [i \in 1..Len(gq_trace) |-> gq_trace[i].kind]

\* C1: with adaptive progression on, a correct answer adds one to
\* consecutive_correct; when that makes 2 below Hiring Challenge the level
\* goes up exactly one step and the counter is 0; one correct answer from
\* counter 0 leaves the level alone.
C1_CorrectAnswerRule ==
    [][ (Adaptive /\ CorrectStep) =>
          /\ (consecutive_correct + 1 = 2 /\ LevelIdx < 4)
                => /\ current_difficulty' = difficulty_levels[LevelIdx + 1]
                   /\ consecutive_correct' = 0
          /\ ~(consecutive_correct + 1 = 2 /\ LevelIdx < 4)
                => /\ consecutive_correct' = consecutive_correct + 1
                   /\ current_difficulty' = current_difficulty
          /\ consecutive_correct = 0 => current_difficulty' = current_difficulty
      ]_vars

C1_Witness ==
    /\ Adaptive
    /\ user_inputs.InitialDifficulty = "Beginner"
    /\ Len(answers) = 2
    /\ answers[1].correct /\ answers[2].correct
    /\ current_difficulty = "Intermediate"
    /\ consecutive_correct = 0

\* C2: with adaptive progression on, an incorrect answer clears
\* consecutive_correct and lowers the level one step, except at Beginner
\* where the level stays.
C2_IncorrectAnswerRule ==
    [][ (Adaptive /\ IncorrectStep) =>
          /\ consecutive_correct' = 0
          /\ current_difficulty' = IF LevelIdx > 1 THEN difficulty_levels[LevelIdx - 1]
                                   ELSE "Beginner"
      ]_vars

C2_Witness ==
    /\ Adaptive
    /\ user_inputs.InitialDifficulty = "Intermediate"
    /\ Len(answers) = 1
    /\ ~answers[1].correct /\ answers[1].user_answer # None
    /\ current_difficulty = "Beginner"
    /\ consecutive_correct = 0

\* C3: once the quiz is started, current_difficulty is one of the four
\* levels and consecutive_correct is a non-negative integer.
C3_LevelAndStreakInRange ==
    quiz_started =>
        /\ current_difficulty \in {"Beginner", "Intermediate", "Senior Level", "Hiring Challenge"}
        /\ consecutive_correct \in Nat

C3_Witness ==
    /\ Adaptive
    /\ Len(answers) = 3
    /\ \E i \in 1..3 : answers[i].correct
    /\ \E i \in 1..3 : ~answers[i].correct /\ answers[i].user_answer # None
    /\ \E i \in 1..3 : answers[i].user_answer = None

\* C4: a timed-out turn is handled as an incorrect attempt: consecutive_correct
\* becomes 0 and, with adaptive progression on, the level drops one step
\* unless at Beginner.
C4_TimeoutIsIncorrect ==
    [][ (Adaptive /\ TimeoutStep) =>
          /\ consecutive_correct' = 0
          /\ current_difficulty' = IF LevelIdx > 1 THEN difficulty_levels[LevelIdx - 1]
                                   ELSE "Beginner"
      ]_vars

\* the level in force before record i of the log was written
LevelBefore(log, i) ==
    LET S == { j \in 1..(i - 1) : "difficulty" \in DOMAIN log[j] } IN
    IF S = {} THEN user_inputs.InitialDifficulty
    ELSE log[CHOOSE j \in S : \A k \in S : k <= j].difficulty
\* record i is an incorrect (or timed-out) record or changed the level
EndsStreak(log, i) ==
    \/ ~log[i].correct
    \/ log[i].difficulty # LevelBefore(log, i)
\* the correct records at the tail of the log after the last such record
TailStreak(log) ==
    LET B == { i \in 1..Len(log) : EndsStreak(log, i) } IN
    IF B = {} THEN Len(log)
    ELSE Len(log) - (CHOOSE i \in B : \A k \in B : k <= i)

\* C5: with adaptive progression on, consecutive_correct is the number of
\* correct records at the tail of the answer log since the last level change
\* or incorrect record, a timeout record counting as incorrect.
C5_StreakMatchesLog ==
    Adaptive => consecutive_correct = TailStreak(answers)

\* C6: consecutive_correct never exceeds 2, because at Hiring Challenge the
\* counter is cleared on reaching 2.
C6_StreakAtMostTwo ==
    quiz_started => consecutive_correct <= 2

\* C7: when all 3 attempts fail, whatever the mix of rate-limit and
\* validation failures, get_question returns the fixed fallback record
\* (concept 'API Reliability', four distinct choices, correct_answer
\* 'Controlling traffic flow' among them) and raises nothing.
C7_FallbackAfterThreeFailures ==
    (gq_calls = 3 /\ \A i \in 1..Len(gq_trace) : gq_trace[i].kind # "ok") =>
        /\ gq_pc = "idle"
        /\ raised = "none"
        /\ current_question = FallbackQuestion
        /\ current_question.concept = "API Reliability"
        /\ Len(current_question.choices) = 4
        /\ Distinct(current_question.choices)
        /\ current_question.correct_answer = "Controlling traffic flow"
        /\ InSeq(current_question.correct_answer, current_question.choices)

C7_Witness ==
    /\ gq_calls = 3
    /\ TraceKinds = <<"rate_limit", "invalid", "rate_limit">>
    /\ current_question = FallbackQuestion

\* C8: for every configuration of the form, an empty Target Role list
\* included, get_question returns a question and never raises.
C8_GetQuestionNeverRaises ==
    raised # "get_question"

\* C9: one get_question call invokes the service at most 3 times, stops at
\* the first attempt that succeeds and returns that attempt's response, and
\* always terminates.
C9_AtMostThreeCallsFirstSuccessReturned ==
    /\ [](/\ gq_calls <= 3
          /\ gq_calls = Len(gq_trace)
          /\ \A k \in 1..Len(gq_trace) :
                gq_trace[k].kind = "ok" =>
                    /\ k = Len(gq_trace)
                    /\ gq_pc = "idle"
                    /\ current_question = gq_trace[k].response)
    /\ ((gq_pc = "loop") ~> (gq_pc = "idle" /\ current_question # NoQuestion))

C9_Witness ==
    /\ gq_pc = "idle"
    /\ TraceKinds = <<"invalid", "ok">>
    /\ current_question = gq_trace[2].response

\* C10 as stated: rate-limit errors on attempts 1 and 2 and success on
\* attempt 3 return the successful question after a total backoff of
\* base_delay*2 + base_delay*4.
C10_BackoffTwoPlusFour ==
    (gq_pc = "idle" /\ TraceKinds = <<"rate_limit", "rate_limit", "ok">>) =>
        /\ current_question = gq_trace[3].response
        /\ gq_delay = base_delay * 2 + base_delay * 4

\* C10 amended: the same scenario returns the successful question after a
\* total backoff of base_delay*1 + base_delay*2 (3 x base_delay, 4.5 s).
C10_BackoffOnePlusTwo ==
    (gq_pc = "idle" /\ TraceKinds = <<"rate_limit", "rate_limit", "ok">>) =>
        /\ current_question = gq_trace[3].response
        /\ gq_delay = 15 * 1 + 15 * 2

C10_Witness ==
    /\ gq_pc = "idle"
    /\ TraceKinds = <<"rate_limit", "rate_limit", "ok">>
    /\ current_question \in ServiceQuestions

\* this step was a pass of the retry loop that failed with the given kind
FailedPass(kind) ==
    /\ Len(gq_trace') = Len(gq_trace) + 1
    /\ LastOf(gq_trace').kind = kind

\* C11: a pass that fails with a non-rate-limit error adds no delay, and
\* such passes count against the same budget of 3 attempts: whatever the mix
\* of failures, the call makes at most 3 attempts, and a failed pass that is
\* not the third is followed by another attempt, not by a return.
C11_ValidationRetryImmediateSameBudget ==
    [][ /\ FailedPass("invalid") => gq_delay' = gq_delay
        /\ (FailedPass("invalid") \/ FailedPass("rate_limit")) =>
              /\ gq_calls' = gq_calls + 1
              /\ gq_calls' <= 3
              /\ (gq_calls' < 3 => gq_pc' = "loop")
              /\ (gq_calls' = 3 => gq_pc' = "idle")
      ]_vars

C11_Witness ==
    /\ gq_pc = "idle"
    /\ TraceKinds = <<"invalid", "rate_limit", "invalid">>
    /\ gq_delay = 30

\* the Question of spec section 3: text, exactly 4 distinct choices, a
\* correct_answer among them, an explanation and a concept
WellFormed(q) ==
    /\ DOMAIN q = {"question", "choices", "correct_answer", "explanation", "concept"}
    /\ Len(q.choices) = 4
    /\ Distinct(q.choices)
    /\ InSeq(q.correct_answer, q.choices)

\* C12: every question get_question returns to the session, from the
\* service or the fallback, is well-formed; a response that is not is
\* rejected and retried, never returned.
C12_ReturnedQuestionWellFormed ==
    current_question # NoQuestion => WellFormed(current_question)

\* C13: after every completed turn, by submission or by timeout, the concept
\* of the question is in asked_concepts: the history is as long as the
\* number of completed turns and holds the concept of every answer record.
C13_ConceptHistoryCoversEveryTurn ==
    /\ Len(asked_concepts) = Len(answers)
    /\ \A i \in 1..Len(answers) : asked_concepts[i] = answers[i].concept

\* C14: the concept list handed to the service is the last min(5, n)
\* entries of the n-entry concept history, in their order; it never has
\* more than 5 entries, and the history itself only grows.
C14_PromptIsLastFiveConcepts ==
    /\ [](gq_calls > 0 =>
            LET n == IF Len(asked_concepts) < 5 THEN Len(asked_concepts) ELSE 5 IN
            /\ Len(gq_prompt) = n
            /\ Len(gq_prompt) <= 5
            /\ \A i \in 1..n : gq_prompt[i] = asked_concepts[Len(asked_concepts) - n + i])
    /\ [][ /\ Len(asked_concepts') >= Len(asked_concepts)
           /\ \A i \in 1..Len(asked_concepts) : asked_concepts'[i] = asked_concepts[i]
       ]_vars

C14_Witness ==
    /\ gq_calls > 0
    /\ Len(asked_concepts) = 6
    /\ Len(gq_prompt) = 5
    /\ asked_concepts[1] # asked_concepts[2]
    /\ gq_prompt[1] = asked_concepts[2]

\* C15: a timed-out turn appends exactly one answer record, with
\* user_answer absent and correct false, and leaves the score unchanged.
C15_TimeoutRecord ==
    [][ TimeoutStep =>
          /\ Len(answers') = Len(answers) + 1
          /\ \A i \in 1..Len(answers) : answers'[i] = answers[i]
          /\ answers'[Len(answers')].user_answer = None
          /\ answers'[Len(answers')].correct = FALSE
          /\ score' = score
      ]_vars

C15_Witness ==
    /\ show_answer
    /\ timer_expired
    /\ Len(answers) = 2
    /\ answers[1].correct
    /\ answers[2].user_answer = None
    /\ score = 1

\* this step recorded a submitted choice
SubmitStep == Recorded /\ ~TimeoutStep

\* C16: a submitted answer is recorded as correct exactly when the choice
\* equals the question's correct_answer; the score goes up by 1 on a
\* correct submission and is unchanged on an incorrect one.
C16_VerdictIsExactMatch ==
    [][ SubmitStep =>
          LET rec == answers'[Len(answers')] IN
          /\ rec.correct <=> (rec.user_answer = current_question.correct_answer)
          /\ rec.correct => score' = score + 1
          /\ ~rec.correct => score' = score
      ]_vars

C16_Witness ==
    /\ Len(answers) = 2
    /\ answers[1].correct /\ answers[1].user_answer = "A1"
    /\ ~answers[2].correct /\ answers[2].user_answer = "A2"
    /\ score = 1

\* C17: every question turn produces exactly one answer record: the log
\* has question_count + 1 records while a result is shown and question_count
\* records otherwise, no step adds more than one record or removes one, and
\* the result view always has a last record.
C17_OneRecordPerTurn ==
    /\ [](/\ show_answer => Len(answers) = question_count + 1
          /\ ~show_answer => Len(answers) = question_count
          /\ show_answer => Len(answers) >= 1)
    /\ [][ /\ Len(answers') \in {Len(answers), Len(answers) + 1}
           /\ Recorded => (AwaitingAnswer /\ show_answer')
       ]_vars

C17_Witness ==
    /\ AwaitingAnswer
    /\ question_count = 2
    /\ Len(answers) = 2
    /\ answers[1].user_answer = None
    /\ answers[2].user_answer # None

\* the configured number of questions
TotalQuestions == user_inputs.QuestionCount

C19_OpenTurnCanTimeOut ==
    AwaitingAnswer => ENABLED Timeout

\* C20: an empty set of question styles is rejected at session start: the
\* session never enters the started state with it.
C20_EmptyStylesRejected ==
    quiz_started => user_inputs.QuestionStyles # {}

\* C21: the verdict depends on the question and the submitted choice only:
\* two submissions of the same choice for the same question get the same
\* verdict, whatever the score, difficulty, history and turn number were.
C21_SameQuestionSameChoiceSameVerdict ==
    \A i, j \in 1..Len(answers) :
        ( /\ answers[i].user_answer # None
          /\ answers[j].user_answer # None
          /\ answers[i].question = answers[j].question
          /\ answers[i].user_answer = answers[j].user_answer )
        => answers[i].correct = answers[j].correct

C21_Witness ==
    /\ Len(answers) = 3
    /\ answers[1].question = "Q1" /\ answers[1].user_answer = "A1" /\ answers[1].correct
    /\ answers[2].user_answer = None
    /\ answers[3].question = "Q1" /\ answers[3].user_answer = "A1" /\ answers[3].correct
    /\ answers[1].difficulty # answers[3].difficulty

\* C22: the question of a turn is generated before its countdown starts and
\* by one get_question call: a call starts only when no question is set,
\* no countdown runs during a call, only the return of a call sets the
\* question, and a question once set stays until "Next Question" clears it.
C22_OneGenerationPerTurnBeforeTimer ==
    /\ [](/\ gq_pc = "loop" => (current_question = NoQuestion /\ ~timer_loop /\ ~show_answer)
          /\ timer_loop => (gq_pc = "idle" /\ current_question # NoQuestion))
    /\ [][ /\ (gq_pc = "idle" /\ gq_pc' = "loop") => current_question = NoQuestion
           /\ (current_question = NoQuestion /\ current_question' # NoQuestion)
                 => (gq_pc = "loop" /\ gq_pc' = "idle" /\ timer_loop')
           /\ (current_question # NoQuestion /\ current_question' # current_question)
                 => /\ current_question' = NoQuestion
                    /\ show_answer /\ ~show_answer'
                    /\ question_count' = question_count + 1
       ]_vars

C22_Witness ==
    /\ AwaitingAnswer
    /\ timer_loop
    /\ question_count = 1
    /\ Len(gq_trace) = 2
    /\ current_question = gq_trace[2].response

\* this step belongs to a get_question call: it enters the call, makes a
\* pass of its retry loop, or returns from it
CallStep == gq_pc = "loop" \/ gq_pc' = "loop"

\* C23: get_question leaves score, answer log, concept history, difficulty,
\* consecutive_correct and question_count as they were, on success, on retry
\* and on fallback; and what a call returns is a response of one of its own
\* attempts or the fallback, never a result kept from an earlier call.
C23_GetQuestionLeavesSessionAlone ==
    /\ [][ CallStep =>
             /\ score' = score
             /\ answers' = answers
             /\ asked_concepts' = asked_concepts
             /\ current_difficulty' = current_difficulty
             /\ consecutive_correct' = consecutive_correct
             /\ question_count' = question_count
       ]_vars
    /\ []((gq_pc = "idle" /\ gq_calls > 0) =>
             IF gq_trace[Len(gq_trace)].kind = "ok"
             THEN current_question = gq_trace[Len(gq_trace)].response
             ELSE gq_calls = 3 /\ current_question = FallbackQuestion)

C23_Witness ==
    /\ gq_pc = "idle"
    /\ gq_calls = 3
    /\ current_question = FallbackQuestion
    /\ Len(answers) = 1
    /\ Len(asked_concepts) = 1
    /\ score = 1

\* C24: once "Start New Assessment" has been pressed after a completed
\* session, the session is back in its initial state.
C24_StartNewAssessmentResets ==
    restart_clicked =>
        /\ quiz_started = FALSE
        /\ question_count = 0
        /\ score = 0
        /\ answers = <<>>
        /\ asked_concepts = <<>>
        /\ consecutive_correct = 0
        /\ show_answer = FALSE
        /\ current_question = NoQuestion

\* C25: with adaptive progression off, the difficulty controller changes
\* nothing: through any correct answers, incorrect answers and timeouts the
\* level is the configured initial one and consecutive_correct is 0.
C25_NoAdaptationWhenDisabled ==
    (quiz_started /\ ~user_inputs.AdaptiveProgression) =>
        /\ current_difficulty = user_inputs.InitialDifficulty
        /\ consecutive_correct = 0

C25_Witness ==
    /\ quiz_started
    /\ ~user_inputs.AdaptiveProgression
    /\ user_inputs.InitialDifficulty = "Intermediate"
    /\ Len(answers) = 3
    /\ answers[1].correct /\ answers[2].correct
    /\ ~answers[3].correct /\ answers[3].user_answer # None
    /\ current_difficulty = "Intermediate"

\* C26: the score is the number of answer records marked correct, and
\* 0 <= score <= len(answers) <= the configured question count.
C26_ScoreCountsCorrectRecords ==
    /\ score = Cardinality({ i \in 1..Len(answers) : answers[i].correct })
    /\ 0 <= score
    /\ score <= Len(answers)
    /\ quiz_started => Len(answers) <= user_inputs.QuestionCount
    /\ ~quiz_started => Len(answers) = 0

C26_Witness ==
    /\ quiz_started
    /\ user_inputs.QuestionCount = 3
    /\ Len(answers) = 3
    /\ answers[1].correct
    /\ ~answers[2].correct /\ answers[2].user_answer # None
    /\ answers[3].user_answer = None
    /\ score = 1

\* C27: when the question's correct_answer is missing or is not one of its
\* choices, every submitted choice is recorded incorrect, the score stays as
\* it was, and with adaptive progression on the incorrect-answer rule
\* applies: the streak is 0 and the level drops one step, Beginner staying
Defective(q) ==
    \/ "correct_answer" \notin DOMAIN q
    \/ ~InSeq(q.correct_answer, q.choices)

C27_DefectiveAnswerKeyScoresIncorrect ==
    [][ (SubmitStep /\ Defective(current_question))
        => /\ ~LastOf(answers').correct
           /\ score' = score
           /\ Adaptive
              => /\ consecutive_correct' = 0
                 /\ current_difficulty' =
                      IF LevelIdx > 1
                      THEN difficulty_levels[LevelIdx - 1]
                      ELSE "Beginner" ]_vars

C27_Witness ==
    /\ quiz_started
    /\ Adaptive
    /\ show_answer
    /\ current_question = KeylessQuestion
    /\ Len(answers) = 2
    /\ answers[1].question = "Q2" /\ answers[1].user_answer = "A2"
    /\ answers[2].question = "Q3" /\ answers[2].user_answer = "A3"
    /\ ~answers[1].correct /\ ~answers[2].correct
    /\ score = 0
    /\ consecutive_correct = 0

\* C28: the total backoff of one get_question call is the sum of
\* base_delay * 2^k over its rate-limited attempts k in {0,1,2} (1.5 s, 3 s,
\* 6 s, in tenths of a second), at most 7 * base_delay = 10.5 s, and nothing
\* is slept after an attempt that succeeds: the successful attempt is the
\* last one of the call
RECURSIVE BackoffSum(_)
BackoffSum(trace) ==
    IF trace = <<>> THEN 0
    ELSE BackoffSum(SubSeq(trace, 1, Len(trace) - 1))
         + IF trace[Len(trace)].kind = "rate_limit"
           THEN 15 * 2 ^ (Len(trace) - 1)
           ELSE 0

C28_BackoffIsBoundedSum ==
    /\ Len(gq_trace) <= 3
    /\ gq_delay = BackoffSum(gq_trace)
    /\ gq_delay <= 7 * 15
    /\ \A k \in 1..Len(gq_trace) : gq_trace[k].kind = "ok" => k = Len(gq_trace)

C28_Witness ==
    /\ TraceKinds = <<"rate_limit", "rate_limit", "rate_limit">>
    /\ gq_delay = 105
    /\ current_question = FallbackQuestion

====
